---- MODULE Spec2Model ----
(***************************************************************************)
(* drfaddons/auth.py: the JWT credential locator                           *)
(* (JSONWebTokenAuthenticationQS.get_authorization / get_jwt_value) and    *)
(* the payload builder (jwt_payload_handler).                              *)
(*                                                                         *)
(* Python strings are sequences of code points, byte strings sequences of  *)
(* byte values.  Every Python value is a record of one shape,              *)
(*   [type, chars, n, fields],                                             *)
(* so that values of different Python types can be compared.               *)
(***************************************************************************)
EXTENDS Integers, Sequences, FiniteSets, TLC

VARIABLES
    key,          \* JSONWebTokenAuthenticationQS.key         (settings.JWT_AUTH_KEY)
    header_key,   \* JSONWebTokenAuthenticationQS.header_key
    prefix,       \* JSONWebTokenAuthenticationQS.prefix      (JWT_AUTH_HEADER_PREFIX)
    cookie,       \* JSONWebTokenAuthenticationQS.cookie      (JWT_AUTH_COOKIE)
    request,      \* the request being authenticated: [data, META, COOKIES]
    pc,           \* "idle" | "received" | "located" | "built"
    auth,         \* what get_authorization gave get_jwt_value (auth.py line 68)
    result,       \* what get_jwt_value returned or raised
    cookieRead,   \* whether get_jwt_value read request.COOKIES (auth.py line 73)
    settings,     \* api_settings as read by jwt_payload_handler, and the username field
    clock,        \* datetime.utcnow(), in seconds
    user,         \* the user record handed to jwt_payload_handler
    payload       \* the dict jwt_payload_handler returned

vars == <<key, header_key, prefix, cookie, request, pc, auth, result, cookieRead,
          settings, clock, user, payload>>

locatorVars == <<key, header_key, prefix, cookie, request, auth, result, cookieRead>>
builderVars == <<settings, clock, user, payload>>

(***************************************************************************)
(* Bounds of the model.                                                    *)
(***************************************************************************)
\* The characters a request carries in the credential field, body and header together.
MaxLen == 5
\* The last value of the clock.
MaxClock == 2

(***************************************************************************)
(* Python values.                                                          *)
(***************************************************************************)
PyNone == [type |-> "NoneType", chars |-> <<>>, n |-> 0, fields |-> <<>>]
PyText(s) == [type |-> "str", chars |-> s, n |-> 0, fields |-> <<>>]
PyBytes(s) == [type |-> "bytes", chars |-> s, n |-> 0, fields |-> <<>>]
PyInt(i) == [type |-> "int", chars |-> <<>>, n |-> i, fields |-> <<>>]
PyBool(b) == [type |-> "bool", chars |-> <<>>, n |-> IF b THEN 1 ELSE 0, fields |-> <<>>]
\* A uuid.UUID, held as its canonical text.
PyUUID(s) == [type |-> "UUID", chars |-> s, n |-> 0, fields |-> <<>>]
PyDatetime(t) == [type |-> "datetime", chars |-> <<>>, n |-> t, fields |-> <<>>]
\* A model instance: f maps the names of its attributes to their values.
PyObject(f) == [type |-> "object", chars |-> <<>>, n |-> 0, fields |-> f]
\* A dict: f maps its keys to their values.
PyDict(f) == [type |-> "dict", chars |-> <<>>, n |-> 0, fields |-> f]

\* bool(v): None, an empty string and 0 are false; an object without __bool__ is true.
Truthy(v) ==
    CASE v.type = "NoneType" -> FALSE
      [] v.type \in {"str", "bytes"} -> Len(v.chars) > 0
      [] v.type \in {"int", "bool"} -> v.n # 0
      [] OTHER -> TRUE

\* mapping.get(k, default)
Get(m, k, default) == IF k \in DOMAIN m THEN m[k] ELSE default

\* The mapping with no key, and the mapping {k: v}.
EmptyMap == [x \in {} |-> PyNone]
OneMap(k, v) == [x \in {k} |-> v]

(***************************************************************************)
(* Characters.  bytes.lower changes the ASCII letters alone; str.lower and *)
(* str.upper also change the letters of U+0080..U+00FF.  The one character *)
(* of the model above U+00FF, the euro sign, has no case.                  *)
(***************************************************************************)
\* bytes.lower, one byte.
LowerChar(c) == IF c >= 65 /\ c <= 90 THEN c + 32 ELSE c
\* The ASCII upper case of one character.
UpperChar(c) == IF c >= 97 /\ c <= 122 THEN c - 32 ELSE c
\* bytes.lower
Lower(s) == [i \in 1..Len(s) |-> LowerChar(s[i])]

\* str.lower, one character: the ASCII capitals, and U+00C0..U+00DE but the
\* multiplication sign U+00D7.
LowerTextChar(c) ==
    IF (c >= 65 /\ c <= 90) \/ (c >= 192 /\ c <= 222 /\ c # 215) THEN c + 32 ELSE c
\* str.lower
LowerText(s) == [i \in 1..Len(s) |-> LowerTextChar(s[i])]

\* str.upper, one character: the micro sign becomes U+039C, the sharp s 'SS', the y
\* with diaeresis U+0178; U+00E0..U+00FE but the division sign lose 32.
UpperTextChar(c) ==
    CASE c >= 97 /\ c <= 122 -> <<c - 32>>
      [] c = 181 -> <<924>>
      [] c = 223 -> <<83, 83>>
      [] c = 255 -> <<376>>
      [] c >= 224 /\ c <= 254 /\ c # 247 -> <<c - 32>>
      [] OTHER -> <<c>>
RECURSIVE Upper(_)
\* str.upper
Upper(s) == IF s = <<>> THEN <<>> ELSE UpperTextChar(Head(s)) \o Upper(Tail(s))

\* bytes.split() splits on runs of ASCII whitespace.
IsSpace(c) == c \in {9, 10, 11, 12, 13, 32}

Reverse(s) == [i \in 1..Len(s) |-> s[Len(s) + 1 - i]]

RECURSIVE split(_)
\* bytes.split(): the maximal runs of non-whitespace bytes, in order.
split(s) ==
    IF s = <<>> THEN <<>>
    ELSE IF IsSpace(Head(s)) THEN split(Tail(s))
    ELSE LET stops == {i \in 1..Len(s) : IsSpace(s[i])}
             n == IF stops = {} THEN Len(s)
                  ELSE (CHOOSE i \in stops : \A j \in stops : i <= j) - 1
         IN  <<SubSeq(s, 1, n)>> \o split(SubSeq(s, n + 1, Len(s)))

(***************************************************************************)
(* Configuration, resolved when the class is defined (auth.py 19-22).      *)
(***************************************************************************)
\* 'HTTP_'
HTTP_ == <<72, 84, 84, 80, 95>>

\* header_key = 'HTTP_' + key.upper()
HeaderKey(k) == HTTP_ \o Upper(k)

(***************************************************************************)
(* get_authorization (auth.py 24-49).  An outcome is [exc, val]: exc = ""  *)
(* when val was returned, else the exception raised.                       *)
(***************************************************************************)
Returned(v) == [exc |-> "", val |-> v]
Raised(e) == [exc |-> e, val |-> PyNone]

\* auth.encode(HTTP_HEADER_ENCODING): iso-8859-1 holds the code points up to 255.
Encode(v) ==
    IF \A i \in 1..Len(v.chars) : v.chars[i] <= 255
    THEN Returned(PyBytes(v.chars))
    ELSE Raised("UnicodeEncodeError")

\* Mutant: the header is read first and the body only when the header is empty.
RetrieveRaw_HeaderFirst(req, k, hk) ==
    LET head == Get(req.META, hk, PyBytes(<<>>))
    IN  IF Truthy(head) THEN head ELSE Get(req.data, k, PyBytes(<<>>))

\* request.data.get(self.key, b'') or request.META.get(self.header_key, b'')
RetrieveRaw(req, k, hk) ==
    LET body == Get(req.data, k, PyBytes(<<>>))
    IN  IF Truthy(body) THEN body ELSE Get(req.META, hk, PyBytes(<<>>))

get_authorization(req, k, hk) ==
    LET raw == RetrieveRaw(req, k, hk)
    IN  IF raw.type = "str" THEN Encode(raw) ELSE Returned(raw)

(***************************************************************************)
(* get_jwt_value (auth.py 51-92).  An outcome is                           *)
(* [kind, val, exc, msg, cookieRead].                                      *)
(***************************************************************************)
Return(v, read) ==
    [kind |-> "return", val |-> v, exc |-> "", msg |-> "", cookieRead |-> read]
Raise(e, m) ==
    [kind |-> "raise", val |-> PyNone, exc |-> e, msg |-> m, cookieRead |-> FALSE]

NoCredentials == "Invalid Authorization header. No credentials provided."
HasSpaces == "Invalid Authorization header. Credentials string should not contain spaces."

\* x.lower() of a str or a bytes
LowerVal(v) ==
    [v EXCEPT !.chars = IF v.type = "bytes" THEN Lower(v.chars) ELSE LowerText(v.chars)]

\* A UTF-8 continuation byte.
IsCont(b) == b >= 128 /\ b <= 191

\* The length of the well-formed UTF-8 sequence that starts s, 0 when there is none:
\* no overlong form, no surrogate, nothing above U+10FFFF.
Utf8Len(s) ==
    CASE s[1] < 128 -> 1
      [] s[1] >= 194 /\ s[1] <= 223 ->
            IF Len(s) >= 2 /\ IsCont(s[2]) THEN 2 ELSE 0
      [] s[1] >= 224 /\ s[1] <= 239 ->
            IF /\ Len(s) >= 3 /\ IsCont(s[2]) /\ IsCont(s[3])
               /\ (s[1] = 224 => s[2] >= 160)
               /\ (s[1] = 237 => s[2] <= 159)
            THEN 3 ELSE 0
      [] s[1] >= 240 /\ s[1] <= 244 ->
            IF /\ Len(s) >= 4 /\ IsCont(s[2]) /\ IsCont(s[3]) /\ IsCont(s[4])
               /\ (s[1] = 240 => s[2] >= 144)
               /\ (s[1] = 244 => s[2] <= 143)
            THEN 4 ELSE 0
      [] OTHER -> 0

\* The code point of the well-formed sequence of n bytes that starts s.
Utf8Point(s, n) ==
    CASE n = 1 -> s[1]
      [] n = 2 -> (s[1] - 192) * 64 + (s[2] - 128)
      [] n = 3 -> (s[1] - 224) * 4096 + (s[2] - 128) * 64 + (s[3] - 128)
      [] OTHER -> (s[1] - 240) * 262144 + (s[2] - 128) * 4096 + (s[3] - 128) * 64
                  + (s[4] - 128)

RECURSIVE Utf8Decode(_)
\* bytes.decode('utf-8'): [ok, chars], ok false when some byte cannot be decoded.
Utf8Decode(s) ==
    IF s = <<>> THEN [ok |-> TRUE, chars |-> <<>>]
    ELSE LET n == Utf8Len(s)
         IN  IF n = 0 THEN [ok |-> FALSE, chars |-> <<>>]
             ELSE LET rest == Utf8Decode(SubSeq(s, n + 1, Len(s)))
                  IN  IF rest.ok
                      THEN [ok |-> TRUE, chars |-> <<Utf8Point(s, n)>> \o rest.chars]
                      ELSE rest

\* smart_text(x): a str as it is, a bytes decoded as UTF-8.
smart_text(v) ==
    IF v.type = "str" THEN Returned(v)
    ELSE LET d == Utf8Decode(v.chars)
         IN  IF d.ok THEN Returned(PyText(d.chars))
             ELSE Raised("DjangoUnicodeDecodeError")

\* auth_header_prefix = self.prefix.lower() or ''
AuthHeaderPrefix(pfx) == LET p == LowerVal(pfx) IN IF Truthy(p) THEN p ELSE PyText(<<>>)

\* Mutant: the sentinel is appended and the list is not reversed.
WithSentinel_NoReverse(tokens, p) ==
    IF p.type = "NoneType" \/ Len(p.chars) < 1
    THEN Append(tokens, PyText(<<>>))
    ELSE tokens

\* if auth_header_prefix is None or len(auth_header_prefix) < 1:
\*     auth.append(''); auth.reverse()
WithSentinel(tokens, p) ==
    IF p.type = "NoneType" \/ Len(p.chars) < 1
    THEN Reverse(Append(tokens, PyText(<<>>)))
    ELSE tokens

\* Mutant: the first element is returned in place of the second.
CheckTokens_FirstElement(a, p) ==
    LET first == smart_text(LowerVal(a[1]))
    IN  IF first.exc # "" THEN Raise(first.exc, "")
        ELSE IF first.val # p THEN Return(PyNone, FALSE)
        ELSE IF Len(a) = 1 THEN Raise("AuthenticationFailed", NoCredentials)
        ELSE IF Len(a) > 2 THEN Raise("AuthenticationFailed", HasSpaces)
        ELSE Return(a[1], FALSE)

\* Mutant: a prefix with nothing after it is taken for no credential at all.
CheckTokens_PrefixAloneAbsent(a, p) ==
    LET first == smart_text(LowerVal(a[1]))
    IN  IF first.exc # "" THEN Raise(first.exc, "")
        ELSE IF first.val # p THEN Return(PyNone, FALSE)
        ELSE IF Len(a) = 1 THEN Return(PyNone, FALSE)
        ELSE IF Len(a) > 2 THEN Raise("AuthenticationFailed", HasSpaces)
        ELSE Return(a[2], FALSE)

\* Mutant: a list of more than two elements is not turned down.
CheckTokens_NoSpaceCheck(a, p) ==
    LET first == smart_text(LowerVal(a[1]))
    IN  IF first.exc # "" THEN Raise(first.exc, "")
        ELSE IF first.val # p THEN Return(PyNone, FALSE)
        ELSE IF Len(a) = 1 THEN Raise("AuthenticationFailed", NoCredentials)
        ELSE Return(a[2], FALSE)

\* Lines 80-92: the prefix check, the two length checks, the token.
CheckTokens(a, p) ==
    LET first == smart_text(LowerVal(a[1]))
    IN  IF first.exc # "" THEN Raise(first.exc, "")
        ELSE IF first.val # p THEN Return(PyNone, FALSE)
        ELSE IF Len(a) = 1 THEN Raise("AuthenticationFailed", NoCredentials)
        ELSE IF Len(a) > 2 THEN Raise("AuthenticationFailed", HasSpaces)
        ELSE Return(a[2], FALSE)

\* Mutant: the configured cookie is not read.
NoToken_WithoutCookie(req, ck) == Return(PyNone, FALSE)

\* Lines 71-74: no token at all: the cookie, when one is configured.
NoToken(req, ck) ==
    IF Truthy(ck) THEN Return(Get(req.COOKIES, ck.chars, PyNone), TRUE)
    ELSE Return(PyNone, FALSE)

get_jwt_value(req, k, hk, pfx, ck) ==
    LET got == get_authorization(req, k, hk)
    IN  IF got.exc # "" THEN Raise(got.exc, "")
        ELSE LET tokens == [i \in 1..Len(split(got.val.chars)) |->
                              PyBytes(split(got.val.chars)[i])]
                 p == AuthHeaderPrefix(pfx)
             IN  IF tokens = <<>> THEN NoToken(req, ck)
                 ELSE CheckTokens(WithSentinel(tokens, p), p)

(***************************************************************************)
(* The inputs: configurations and requests.                                *)
(***************************************************************************)
\* ' ', 'J', 'x' and a character outside iso-8859-1 (the euro sign).
Alphabet == {32, 74, 120, 8364}

\* Credential values with characters of U+0080..U+00FF: 'e-acute' alone and before
\* one and two tokens (its byte starts no UTF-8 sequence), and 'A-tilde, copyright
\* sign' alone and before a token (what UTF-8 'e-acute' is as iso-8859-1 text).
Latin1Strings ==
    { <<233>>, <<233, 32, 120>>, <<233, 32, 120, 32, 120>>,
      <<195, 169>>, <<195, 169, 32, 120>> }

Strings(n) ==
    UNION {[1..m -> Alphabet] : m \in 0..n} \cup {t \in Latin1Strings : Len(t) <= n}

\* The values of a body field: text, or bytes.  The transport hands headers on as text.
IsBytes(s) == \A i \in 1..Len(s) : s[i] <= 255
FieldValues(n) ==
    {PyText(s) : s \in Strings(n)} \cup {PyBytes(s) : s \in {t \in Strings(n) : IsBytes(t)}}
HeaderValues(n) == {PyText(s) : s \in Strings(n)}

\* JWT_AUTH_KEY: 'Authorization' (the default) and 'X-Auth'.
DefaultKey == <<65, 117, 116, 104, 111, 114, 105, 122, 97, 116, 105, 111, 110>>
Keys == {DefaultKey, <<88, 45, 65, 117, 116, 104>>}

\* JWT_AUTH_HEADER_PREFIX: '', 'J' and 'j'.
Prefixes == {PyText(<<>>), PyText(<<74>>), PyText(<<106>>)}

\* JWT_AUTH_COOKIE: None and 'c'.
CookieNames == {PyNone, PyText(<<99>>)}

\* The name under which the transport (WSGI) hands the header named k to the
\* application: 'HTTP_' + k.upper().replace('-', '_').
WsgiName(k) == HTTP_ \o [i \in 1..Len(k) |-> IF k[i] = 45 THEN 95 ELSE UpperChar(k[i])]

\* request.data, request.META and request.COOKIES: the credential field of at most
\* n characters, absent or present.
DataMaps(k, n) == {EmptyMap} \cup {OneMap(k, v) : v \in FieldValues(n)}
MetaMaps(k, n) == {EmptyMap} \cup {OneMap(WsgiName(k), v) : v \in HeaderValues(n)}
CookieMaps == {EmptyMap, OneMap(<<99>>, PyText(<<120>>))}

\* The characters of the one value of a mapping, 0 for the empty mapping.
CharsOf(m) == IF DOMAIN m = {} THEN 0 ELSE Len(m[CHOOSE x \in DOMAIN m : TRUE].chars)

NoRequest == [data |-> EmptyMap, META |-> EmptyMap, COOKIES |-> EmptyMap]
NoAuth == [exc |-> "", val |-> PyNone]
NoResult == [kind |-> "none", val |-> PyNone, exc |-> "", msg |-> ""]
NoSettings ==
    [JWT_EXPIRATION_DELTA |-> 0, JWT_ALLOW_REFRESH |-> FALSE, JWT_AUDIENCE |-> PyNone,
     JWT_ISSUER |-> PyNone, username_field |-> "username"]
NoUser == [pk |-> PyNone, is_staff |-> PyNone, attrs |-> [x \in {} |-> PyNone]]
NoPayload == [x \in {} |-> PyNone]

(***************************************************************************)
(* The credential locator as a state machine.                              *)
(***************************************************************************)
InitLocate ==
    /\ key \in Keys
    /\ header_key = HeaderKey(key)
    /\ prefix \in Prefixes
    /\ cookie \in CookieNames
    /\ request = NoRequest
    /\ pc = "idle"
    /\ auth = NoAuth
    /\ result = NoResult
    /\ cookieRead = FALSE
    /\ settings = NoSettings
    /\ clock = 0
    /\ user = NoUser
    /\ payload = NoPayload

\* A request arrives.
ReceiveRequest ==
    /\ pc = "idle"
    /\ \E d \in DataMaps(key, MaxLen) :
       \E m \in MetaMaps(key, MaxLen - CharsOf(d)) :
       \E c \in CookieMaps :
          request' = [data |-> d, META |-> m, COOKIES |-> c]
    /\ pc' = "received"
    /\ UNCHANGED <<key, header_key, prefix, cookie, auth, result, cookieRead>>
    /\ UNCHANGED builderVars

\* The framework calls get_jwt_value(request).
Authenticate ==
    /\ pc = "received"
    /\ auth' = get_authorization(request, key, header_key)
    /\ LET r == get_jwt_value(request, key, header_key, prefix, cookie)
       IN  /\ result' = [kind |-> r.kind, val |-> r.val, exc |-> r.exc, msg |-> r.msg]
           /\ cookieRead' = r.cookieRead
    /\ pc' = "located"
    /\ UNCHANGED <<key, header_key, prefix, cookie, request>>
    /\ UNCHANGED builderVars

\* The outcome is consumed and the request is over.
Respond ==
    /\ pc = "located"
    /\ request' = NoRequest
    /\ auth' = NoAuth
    /\ result' = NoResult
    /\ cookieRead' = FALSE
    /\ pc' = "idle"
    /\ UNCHANGED <<key, header_key, prefix, cookie>>
    /\ UNCHANGED builderVars

NextLocate == ReceiveRequest \/ Authenticate \/ Respond

SpecLocate == InitLocate /\ [][NextLocate]_vars

(***************************************************************************)
(* jwt_payload_handler (auth.py 105-186).  A user is [pk, is_staff, attrs]: *)
(* attrs maps the names of the attributes the user has to their values,    *)
(* so hasattr(user, a) is a \in DOMAIN user.attrs.                         *)
(***************************************************************************)
hasattr(u, a) == a \in DOMAIN u.attrs

\* payload[k] = v
Put(p, k, v) == [x \in DOMAIN p \cup {k} |-> IF x = k THEN v ELSE p[x]]

\* str(user.pk) of a UUID
Str(v) == PyText(v.chars)

\* get_username(user): user.get_username(), the attribute USERNAME_FIELD names.
get_username(u, st) == u.attrs[st.username_field]

\* Lines 131-135.
BasePayload(u, st, now) ==
    [x \in {"user_id", "is_admin", "exp"} |->
        CASE x = "user_id" -> u.pk
          [] x = "is_admin" -> u.is_staff
          [] OTHER -> PyDatetime(now + st.JWT_EXPIRATION_DELTA)]

\* Mutant: the attribute is copied when its value is true, not when the user has it.
CopyAttr_IfTruthy(p, u, a) ==
    IF hasattr(u, a) /\ Truthy(u.attrs[a]) THEN Put(p, a, u.attrs[a]) ELSE p

\* Lines 137-138, 140-141, 143-144, 152-153: if hasattr(user, a): payload[a] = user.a
CopyAttr(p, u, a) == IF hasattr(u, a) THEN Put(p, a, u.attrs[a]) ELSE p

\* Lines 146-147.
UuidToStr(p, u) == IF u.pk.type = "UUID" THEN Put(p, "user_id", Str(u.pk)) ELSE p

\* Mutant: the assignee's mobile and email change places.
AssignedTo_Swapped(p, u) ==
    IF hasattr(u, "assigned_to")
    THEN IF Truthy(u.attrs["assigned_to"])
         THEN Put(p, "assigned_to",
                  PyDict([name |-> u.attrs["assigned_to"].fields.name,
                          mobile |-> u.attrs["assigned_to"].fields.email,
                          email |-> u.attrs["assigned_to"].fields.mobile]))
         ELSE Put(p, "assigned_to", PyNone)
    ELSE p

\* Lines 156-161.
AssignedTo(p, u) ==
    IF hasattr(u, "assigned_to")
    THEN IF Truthy(u.attrs["assigned_to"])
         THEN Put(p, "assigned_to",
                  PyDict([name |-> u.attrs["assigned_to"].fields.name,
                          mobile |-> u.attrs["assigned_to"].fields.mobile,
                          email |-> u.attrs["assigned_to"].fields.email]))
         ELSE Put(p, "assigned_to", PyNone)
    ELSE p

\* Lines 175-184.
FromSettings(p, st, now) ==
    LET p1 == IF st.JWT_ALLOW_REFRESH THEN Put(p, "orig_iat", PyInt(now)) ELSE p
        p2 == IF st.JWT_AUDIENCE.type # "NoneType" THEN Put(p1, "aud", st.JWT_AUDIENCE) ELSE p1
    IN  IF st.JWT_ISSUER.type # "NoneType" THEN Put(p2, "iss", st.JWT_ISSUER) ELSE p2

\* now is utcnow() at line 134, later utcnow() at line 177.
jwt_payload_handler(u, st, now, later) ==
    LET p0 == BasePayload(u, st, now)
        p1 == CopyAttr(p0, u, "email")
        p2 == CopyAttr(p1, u, "mobile")
        p3 == CopyAttr(p2, u, "name")
        p4 == UuidToStr(p3, u)
        p5 == Put(p4, st.username_field, get_username(u, st))
        p6 == CopyAttr(p5, u, "organization")
        p7 == AssignedTo(p6, u)
    IN  FromSettings(p7, st, later)

(***************************************************************************)
(* The inputs of the payload builder.                                      *)
(***************************************************************************)
\* Not a value: the attribute is missing.
Absent == [type |-> "absent", chars |-> <<>>, n |-> 0, fields |-> <<>>]

OptionalAttrs == {"email", "mobile", "name", "organization", "assigned_to"}
AttrNames == OptionalAttrs \cup {"username"}

\* The values an attribute takes when the user has it.
AttrValues(a) ==
    CASE a = "email" -> {PyText(<<>>), PyText(<<106, 64, 106>>)}
      [] a = "mobile" -> {PyText(<<55>>)}
      [] a = "name" -> {PyText(<<74>>)}
      [] a = "username" -> {PyText(<<106>>)}
      [] a = "organization" -> {PyNone, PyObject([pk |-> PyInt(1)])}
      [] a = "assigned_to" ->
            {PyNone,
             PyObject([pk |-> PyInt(2), name |-> PyText(<<74, 106>>),
                       mobile |-> PyText(<<56>>), email |-> PyText(<<>>)]),
             PyObject([pk |-> PyInt(3), name |-> PyNone,
                       mobile |-> PyNone, email |-> PyText(<<106>>)])}

\* The attribute maps of the users whose username field is uf.
AttrMaps(uf) ==
    { [a \in {b \in AttrNames : c[b] # Absent} |-> c[a]] :
        c \in {d \in [email : AttrValues("email") \cup {Absent},
                      mobile : AttrValues("mobile") \cup {Absent},
                      name : AttrValues("name") \cup {Absent},
                      username : AttrValues("username") \cup {Absent},
                      organization : AttrValues("organization") \cup {Absent},
                      assigned_to : AttrValues("assigned_to") \cup {Absent}] :
                 d[uf] # Absent} }

Users(uf) ==
    { [pk |-> k, is_staff |-> PyBool(b), attrs |-> a] :
        k \in {PyInt(42), PyUUID(<<55, 102>>)}, b \in BOOLEAN, a \in AttrMaps(uf) }

\* api_settings, and USERNAME_FIELD of the user model.
Settings ==
    [JWT_EXPIRATION_DELTA : {300},
     JWT_ALLOW_REFRESH : BOOLEAN,
     JWT_AUDIENCE : {PyNone, PyText(<<>>), PyText(<<97>>)},
     JWT_ISSUER : {PyNone, PyText(<<105>>)},
     username_field : {"username", "email"}]

(***************************************************************************)
(* The payload builder as a state machine.                                 *)
(***************************************************************************)
InitBuild ==
    /\ key = DefaultKey
    /\ header_key = HeaderKey(key)
    /\ prefix = PyText(<<74>>)
    /\ cookie = PyNone
    /\ request = NoRequest
    /\ pc = "idle"
    /\ auth = NoAuth
    /\ result = NoResult
    /\ cookieRead = FALSE
    /\ settings \in Settings
    /\ clock = 0
    /\ user = NoUser
    /\ payload = NoPayload

\* Time passes.
Tick ==
    /\ pc = "idle"
    /\ clock < MaxClock
    /\ clock' = clock + 1
    /\ UNCHANGED <<pc, settings, user, payload>>
    /\ UNCHANGED locatorVars

\* A token is issued for a user: jwt_payload_handler(user).
IssueToken ==
    /\ pc = "idle"
    /\ \E u \in Users(settings.username_field) :
       \E later \in {t \in {clock, clock + 1} : t <= MaxClock} :
          /\ user' = u
          /\ payload' = jwt_payload_handler(u, settings, clock, later)
          /\ clock' = later
    /\ pc' = "built"
    /\ UNCHANGED settings
    /\ UNCHANGED locatorVars

\* The payload is signed and dropped.
Sign ==
    /\ pc = "built"
    /\ user' = NoUser
    /\ payload' = NoPayload
    /\ pc' = "idle"
    /\ UNCHANGED <<settings, clock>>
    /\ UNCHANGED locatorVars

NextBuild == Tick \/ IssueToken \/ Sign

SpecBuild == InitBuild /\ [][NextBuild]_vars

(***************************************************************************)
(* What the claims speak of.                                               *)
(***************************************************************************)
\* The value of the credential field in the body, and the value the header mapping
\* holds under the key the locator looks up; b'' when there is none.
BodyValue == Get(request.data, key, PyBytes(<<>>))
HeaderValue == Get(request.META, header_key, PyBytes(<<>>))

\* The retrieved credential value: the body's when it is not empty, else the header's.
Retrieved == IF Len(BodyValue.chars) > 0 THEN BodyValue ELSE HeaderValue

\* The value can be held in the transport encoding.
Encodable(v) == v.type = "bytes" \/ \A i \in 1..Len(v.chars) : v.chars[i] <= 255

\* Missing, empty or whitespace-only: the value yields no token.
NoTokenIn(v) == \A i \in 1..Len(v.chars) : v.chars[i] \in {9, 10, 11, 12, 13, 32}

\* The tokens of an encodable value.
TokensOf(v) == split(v.chars)

PrefixGiven == Len(prefix.chars) > 0
CookieGiven == cookie.type = "str" /\ Len(cookie.chars) > 0

Failed(m) == result.kind = "raise" /\ result.exc = "AuthenticationFailed" /\ result.msg = m
ReturnedAbsent == result.kind = "return" /\ result.val = PyNone
ReturnedToken(t) == result.kind = "return" /\ result.val = PyBytes(t) /\ ~cookieRead

\* C1: a two-token body value whose first token is the configured non-empty prefix,
\* case-insensitively, makes get_jwt_value return the second token unchanged,
\* whatever the header and the cookie hold.
C1_BodyTokenReturned ==
    (/\ pc = "located"
     /\ PrefixGiven
     /\ Encodable(BodyValue)
     /\ Len(TokensOf(BodyValue)) = 2
     /\ Lower(TokensOf(BodyValue)[1]) = LowerText(prefix.chars))
    => ReturnedToken(TokensOf(BodyValue)[2])

\* C1's case: the body holds 'J J' under the prefix 'j', the header holds another
\* value and the cookie is set; the second token comes back with its capital.
C1_Witness ==
    /\ pc = "located"
    /\ prefix = PyText(<<106>>)
    /\ BodyValue = PyText(<<74, 32, 74>>)
    /\ Len(HeaderValue.chars) > 0
    /\ DOMAIN request.COOKIES # {}
    /\ CookieGiven
    /\ ReturnedToken(<<74>>)

\* What get_authorization hands on when v is the value it processes.
Processed(v) ==
    IF Encodable(v) THEN auth = Returned(PyBytes(v.chars))
    ELSE auth.exc = "UnicodeEncodeError"

\* C2: get_authorization processes the body value when the body carries one, and the
\* header value only when the body carries none.
C2_BodyBeforeHeader ==
    pc = "located" =>
        /\ Len(BodyValue.chars) > 0 => Processed(BodyValue)
        /\ Len(BodyValue.chars) = 0 => Processed(HeaderValue)

\* C2's case: the body holds 'x', which the prefix check turns down, the header holds
\* the well-formed 'J x'; the body value is the one processed and the outcome is absent.
C2_Witness ==
    /\ pc = "located"
    /\ prefix = PyText(<<74>>)
    /\ BodyValue = PyText(<<120>>)
    /\ HeaderValue = PyText(<<74, 32, 120>>)
    /\ auth = Returned(PyBytes(<<120>>))
    /\ ReturnedAbsent

\* What get_jwt_value does when no token was found: it never raises, it returns the
\* configured cookie's value (absent when the request has no such cookie), and absent
\* when no cookie is configured.
CookieOutcome ==
    /\ result.kind = "return"
    /\ CookieGiven => /\ cookieRead
                      /\ result.val = Get(request.COOKIES, cookie.chars, PyNone)
    /\ ~CookieGiven => /\ ~cookieRead
                       /\ result.val = PyNone

\* C3 as stated: the cookie outcome when neither the body value nor the header value
\* yields a token, and the cookie consulted in no other case.
C3_AsStated ==
    pc = "located" =>
        /\ (NoTokenIn(BodyValue) /\ NoTokenIn(HeaderValue)) => CookieOutcome
        /\ cookieRead => (NoTokenIn(BodyValue) /\ NoTokenIn(HeaderValue))

\* C3 (amended): the cookie outcome when the retrieved credential value (the body
\* value when it is not empty, else the header value) yields no token, and the cookie
\* consulted in no other case.
C3_CookieWhenNoToken ==
    pc = "located" =>
        /\ NoTokenIn(Retrieved) => CookieOutcome
        /\ cookieRead => NoTokenIn(Retrieved)

\* C3's case: a whitespace-only body, no header, a configured cookie that is set:
\* the cookie's value is returned.
C3_Witness ==
    /\ pc = "located"
    /\ BodyValue = PyText(<<32, 32>>)
    /\ DOMAIN request.META = {}
    /\ CookieGiven
    /\ cookieRead
    /\ result.kind = "return"
    /\ result.val = PyText(<<120>>)

\* C4: a retrieved value of the prefix alone, in any case, fails with
\* 'no credentials provided'.
C4_PrefixAloneFails ==
    (/\ pc = "located"
     /\ PrefixGiven
     /\ Encodable(Retrieved)
     /\ Len(TokensOf(Retrieved)) = 1
     /\ Lower(TokensOf(Retrieved)[1]) = LowerText(prefix.chars))
    => Failed(NoCredentials)

\* C4's case: the header holds ' J' under the prefix 'j'.
C4_Witness ==
    /\ pc = "located"
    /\ prefix = PyText(<<106>>)
    /\ Len(BodyValue.chars) = 0
    /\ HeaderValue = PyText(<<32, 74>>)
    /\ Failed(NoCredentials)

\* C5 as stated: three or more tokens fail with 'unexpected whitespace' under every
\* configured prefix.
C5_AsStated ==
    (/\ pc = "located"
     /\ Encodable(Retrieved)
     /\ Len(TokensOf(Retrieved)) >= 3)
    => Failed(HasSpaces)

\* C5 (amended): three or more tokens fail with 'unexpected whitespace' when the
\* configured prefix is empty or the first token is the prefix, case-insensitively.
C5_ThreeTokensFail ==
    (/\ pc = "located"
     /\ Encodable(Retrieved)
     /\ Len(TokensOf(Retrieved)) >= 3
     /\ (~PrefixGiven \/ Lower(TokensOf(Retrieved)[1]) = LowerText(prefix.chars)))
    => Failed(HasSpaces)

\* C5's case: 'J x x' under the prefix 'j'.
C5_Witness ==
    /\ pc = "located"
    /\ prefix = PyText(<<106>>)
    /\ Retrieved = PyText(<<74, 32, 120, 32, 120>>)
    /\ Failed(HasSpaces)

\* C6 as stated: a text value with a character outside the transport encoding fails
\* as an authentication failure.
C6_AsStated ==
    (/\ pc = "located"
     /\ Retrieved.type = "str"
     /\ ~Encodable(Retrieved))
    => result.kind = "raise" /\ result.exc = "AuthenticationFailed"

\* C7 as stated: the header is looked up under 'HTTP_' + the field name upper-cased
\* with every '-' replaced by '_'.
C7_AsStated ==
    pc = "located" =>
        /\ header_key = WsgiName(key)
        /\ 45 \notin {header_key[i] : i \in 1..Len(header_key)}

\* C10: with an empty prefix a token is returned exactly when the retrieved value is
\* one token, and it is that token; two or more tokens fail with 'unexpected
\* whitespace'; 'no credentials provided' and the absent outcome of a prefix mismatch
\* do not occur.
C10_EmptyPrefix ==
    (pc = "located" /\ ~PrefixGiven) =>
        LET one == Encodable(Retrieved) /\ Len(TokensOf(Retrieved)) = 1
            more == Encodable(Retrieved) /\ Len(TokensOf(Retrieved)) >= 2
            none == Encodable(Retrieved) /\ Len(TokensOf(Retrieved)) = 0
        IN  /\ one => ReturnedToken(TokensOf(Retrieved)[1])
            /\ ~one => ~(result.kind = "return" /\ result.val # PyNone /\ ~cookieRead)
            /\ more => Failed(HasSpaces)
            /\ ~Failed(NoCredentials)
            /\ ReturnedAbsent => none

\* C10's case: the header holds 'J' alone under the empty prefix, and 'J' is returned.
C10_Witness ==
    /\ pc = "located"
    /\ ~PrefixGiven
    /\ Len(BodyValue.chars) = 0
    /\ HeaderValue = PyText(<<74>>)
    /\ ReturnedToken(<<74>>)

\* The claims a payload holds for the user it was built for under the settings.
ExpectedClaims ==
    {"user_id", "is_admin", "exp", settings.username_field}
    \cup {a \in OptionalAttrs : hasattr(user, a)}
    \cup (IF settings.JWT_ALLOW_REFRESH THEN {"orig_iat"} ELSE {})
    \cup (IF settings.JWT_AUDIENCE # PyNone THEN {"aud"} ELSE {})
    \cup (IF settings.JWT_ISSUER # PyNone THEN {"iss"} ELSE {})

\* C8: the claim names of a payload are user_id, is_admin, exp and the username field,
\* each optional attribute the user has (an empty value included), orig_iat when
\* refresh is allowed, aud and iss when they are defined, and nothing else.
C8_ClaimNames == pc = "built" => DOMAIN payload = ExpectedClaims

\* C8's case: user 42, staff, with an empty email and no other optional attribute,
\* no refresh, no audience, no issuer.
C8_Witness ==
    /\ pc = "built"
    /\ user.pk = PyInt(42)
    /\ user.is_staff = PyBool(TRUE)
    /\ DOMAIN user.attrs = {"email", "username"}
    /\ user.attrs["email"] = PyText(<<>>)
    /\ ~settings.JWT_ALLOW_REFRESH
    /\ settings.JWT_AUDIENCE = PyNone
    /\ settings.JWT_ISSUER = PyNone
    /\ DOMAIN payload = {"user_id", "is_admin", "exp", "email", "username"}
    /\ payload["email"] = PyText(<<>>)
    /\ payload["user_id"] = PyInt(42)

\* C9: a user with an assigned_to attribute gets the assigned_to claim: the assignee's
\* name, mobile and email when the value is not null, null only when it is null; a user
\* without the attribute gets no assigned_to claim.
C9_AssignedTo ==
    pc = "built" =>
        IF hasattr(user, "assigned_to")
        THEN /\ "assigned_to" \in DOMAIN payload
             /\ user.attrs["assigned_to"] # PyNone =>
                    /\ payload["assigned_to"].type = "dict"
                    /\ DOMAIN payload["assigned_to"].fields = {"name", "mobile", "email"}
                    /\ \A f \in {"name", "mobile", "email"} :
                          payload["assigned_to"].fields[f] = user.attrs["assigned_to"].fields[f]
             /\ payload["assigned_to"] = PyNone => user.attrs["assigned_to"] = PyNone
             /\ user.attrs["assigned_to"] = PyNone => payload["assigned_to"] = PyNone
        ELSE "assigned_to" \notin DOMAIN payload

\* C9's case: the assignee 'Jj' with mobile '8' and an empty email.
C9_Witness ==
    /\ pc = "built"
    /\ hasattr(user, "assigned_to")
    /\ user.attrs["assigned_to"].type = "object"
    /\ user.attrs["assigned_to"].fields.pk = PyInt(2)
    /\ payload["assigned_to"] =
          PyDict([name |-> PyText(<<74, 106>>), mobile |-> PyText(<<56>>), email |-> PyText(<<>>)])

====
